---- MODULE Spec2Model ----
(***************************************************************************)
(* Model of the embassy email harvesting job (emailScrapper/scrapper.py)   *)
(* and of the batch sender (emailService/main.py).  The two jobs share     *)
(* only two files: the scrape artifact embassy_emails.json and the Send    *)
(* Log sent_emails.json.                                                   *)
(***************************************************************************)
EXTENDS Integers, Sequences, FiniteSets, TLC

\* ---------------------------------------------------------------- bounds
NumCountries == 2       \* country names that the directory page can list
NumAddrs     == 2       \* distinct e-mail addresses
MaxAnchors   == 2       \* anchors in the sidebar menu of the directory page
MaxBatch     == 2       \* batch_size is drawn from 1..MaxBatch

\* ------------------------------------------------------ program constants
ScrapeDelay  == 2
SendDelay    == 60
BatchBreak   == 3600

Countries == 1..NumCountries
Addrs     == 1..NumAddrs

ContactMissing == "Contact section not found"
NoEmails       == "No embassy emails found"
FetchError     == "request failed"

SeqsUpTo(S, n) == UNION {[1..k -> S] : k \in 0..n}

\* ------------------------------------------------- ordered dict (python)
DictKeys(d) == {d[i].name : i \in 1..Len(d)}

DictSet(d, k, v) ==
    IF k \in DictKeys(d)
    THEN [i \in 1..Len(d) |->
            IF d[i].name = k THEN [name |-> k, result |-> v] ELSE d[i]]
    ELSE Append(d, [name |-> k, result |-> v])

\* ------------------------------------------------------------ the files
Absent      == [kind |-> "absent"]
Partial     == [kind |-> "partial"]
Json(value) == [kind |-> "json", data |-> value]

EmptyLog == [c \in {} |-> 0]

\* ============================================================== scraper
\* anchors of the sidebar menu: a name and whether the anchor has an href
Anchors == [name : Countries, href : BOOLEAN]

RECURSIVE CountryLinks(_)
CountryLinks(anchors) ==
    IF anchors = <<>> THEN <<>>
    ELSE IF ~Head(anchors).href THEN CountryLinks(Tail(anchors))
         ELSE <<Head(anchors).name>> \o CountryLinks(Tail(anchors))

\* anchors of a detail page's contact section: addr 0 is the empty string
Hrefs == [mailto : BOOLEAN, addr : 0..NumAddrs]
Pages == [contact : BOOLEAN, links : SeqsUpTo(Hrefs, NumAddrs)]

InSeq(x, s) == \E i \in 1..Len(s) : s[i] = x

RECURSIVE CollectEmails(_, _)
CollectEmails(links, emails) ==
    IF links = <<>> THEN emails
    ELSE LET l == Head(links)
         IN  IF l.mailto /\ l.addr # 0 /\ ~InSeq(l.addr, emails)
             THEN CollectEmails(Tail(links), Append(emails, l.addr))
             ELSE CollectEmails(Tail(links), emails)

extract_embassy_emails(page) ==
    IF ~page.contact THEN [error |-> ContactMissing]
    ELSE LET emails == CollectEmails(page.links, <<>>)
         IN  IF emails # <<>> THEN [emails |-> emails]
             ELSE [error |-> NoEmails]

\* what the request for a detail page can lead to
Fetched(result) == [fetched |-> TRUE, result |-> result]
FetchFailed     == [fetched |-> FALSE]
ScrapeOutcomes  ==
    {FetchFailed} \cup {Fetched(extract_embassy_emails(p)) : p \in Pages}

scrape_country_dropping(data, name, out) ==
    IF out.fetched THEN DictSet(data, name, out.result) ELSE data

\* the mapping after scrape_country
scrape_country(data, name, out) ==
    IF out.fetched THEN DictSet(data, name, out.result)
    ELSE DictSet(data, name, [error |-> FetchError])

\* the mapping after the loop of scrape_all_countries
RECURSIVE ScrapeAll(_, _, _)
ScrapeAll(names, outs, data) ==
    IF names = <<>> THEN data
    ELSE ScrapeAll(Tail(names), Tail(outs),
                   scrape_country(data, Head(names), Head(outs)))

\* the lists get_country_links can return (the empty one also on failure)
CountryLists == {CountryLinks(a) : a \in SeqsUpTo(Anchors, MaxAnchors)}

\* ================================================================ state
VARIABLES
    artifact,       \* embassy_emails.json
    sentFile,       \* sent_emails.json
    \* --- scraper process (scrapper.py)
    spc,            \* "idle", "scraping", "saving", "done", "died"
    countries,      \* list returned by get_country_links
    sidx,           \* countries already handed to scrape_country
    scraped,        \* self.embassy_data of the scraper
    gap,            \* time slept since the last detail-page request
    writes,         \* writes of the artifact in this scrape run
    \* --- sender process (main.py)
    pc,             \* position inside process_embassies
    embassy_data,   \* the loaded scrape mapping (ordered)
    sent_log,       \* the in-memory Send Log
    batch_size,
    processed,
    email,          \* recipient of the send in flight (0: none)
    \* --- observations of the current send run
    outcome,        \* what happened to the country being processed
    slept,          \* time slept since that country's processing began
    submissions,    \* <<country, address>> of every send_email call, in order
    failed,         \* countries whose send_email returned False
    saveOk,         \* FALSE once a write of the Send Log failed and no later one succeeded
    fileAtStart,    \* sentFile as it was when the run started
    ending,         \* how the run ended
    \* --- observations across runs
    delivered,      \* countries for which a transport submission ever succeeded
    failedBefore,   \* countries that failed in the previous run on this artifact
    persistedAtKill,\* keys persisted when the previous run was killed right after a save
    resumeFrom      \* persistedAtKill as seen by the run that resumes

scraperVars == <<spc, countries, sidx, scraped, gap, writes>>
senderVars  == <<pc, embassy_data, sent_log, batch_size, processed, email>>
runObs      == <<outcome, slept, submissions, failed, saveOk, fileAtStart, ending>>
lifeObs     == <<delivered, failedBefore, persistedAtKill, resumeFrom>>
vars == <<artifact, sentFile, scraperVars, senderVars, runObs, lifeObs>>

None == [set |-> FALSE]
Some(S) == [set |-> TRUE, keys |-> S]

Init ==
    /\ artifact = Absent
    /\ sentFile = Absent
    /\ spc = "idle" /\ countries = <<>> /\ sidx = 0 /\ scraped = <<>> /\ gap = 0
    /\ writes = 0
    /\ pc = "idle" /\ embassy_data = <<>> /\ sent_log = EmptyLog
    /\ batch_size = 1 /\ processed = 0 /\ email = 0
    /\ outcome = "none" /\ slept = 0 /\ submissions = <<>> /\ failed = {}
    /\ saveOk = TRUE /\ fileAtStart = Absent /\ ending = "none"
    /\ delivered = {} /\ failedBefore = {} /\ persistedAtKill = None
    /\ resumeFrom = None

\* ------------------------------------------------------ scraper actions
\* scrape_all_countries, line 89: get_country_links succeeds
ScrapeStart ==
    /\ spc = "idle"
    /\ \E anchors \in SeqsUpTo(Anchors, MaxAnchors) :
          countries' = CountryLinks(anchors)
    /\ countries' # <<>>
    /\ spc' = "scraping" /\ sidx' = 0 /\ scraped' = <<>> /\ gap' = 0 /\ writes' = 0
    /\ UNCHANGED <<artifact, sentFile, senderVars, runObs, lifeObs>>

\* get_country_links, lines 41-43: any failure degrades to the empty list
ScrapeStartFailed ==
    /\ spc = "idle"
    /\ countries' = <<>>
    /\ spc' = "scraping" /\ sidx' = 0 /\ scraped' = <<>> /\ gap' = 0 /\ writes' = 0
    /\ UNCHANGED <<artifact, sentFile, senderVars, runObs, lifeObs>>

\* scrape_country, lines 70-81: the page is fetched
ScrapeCountryFetched ==
    /\ spc = "scraping" /\ sidx < Len(countries)
    /\ \E page \in Pages :
          scraped' = scrape_country(scraped, countries[sidx + 1],
                                    Fetched(extract_embassy_emails(page)))
    /\ sidx' = sidx + 1
    /\ gap' = ScrapeDelay
    /\ UNCHANGED <<artifact, sentFile, spc, countries, writes,
                   senderVars, runObs, lifeObs>>

\* scrape_country, lines 83-85: requests.get or raise_for_status raised
ScrapeCountryFetchFailed ==
    /\ spc = "scraping" /\ sidx < Len(countries)
    /\ scraped' = scrape_country(scraped, countries[sidx + 1], FetchFailed)
    /\ sidx' = sidx + 1
    /\ gap' = 0
    /\ UNCHANGED <<artifact, sentFile, spc, countries, writes,
                   senderVars, runObs, lifeObs>>

\* scrape_all_countries, line 92: the for loop is exhausted
ScrapeLoopEnd ==
    /\ spc = "scraping" /\ sidx = Len(countries)
    /\ spc' = "saving"
    /\ UNCHANGED <<artifact, sentFile, countries, sidx, scraped, gap, writes,
                   senderVars, runObs, lifeObs>>

\* scrape_all_countries, lines 96-99: the mapping replaces the artifact
ScrapeSave ==
    /\ spc = "saving"
    /\ artifact' = Json(scraped)
    /\ writes' = writes + 1
    /\ spc' = "done"
    /\ UNCHANGED <<sentFile, countries, sidx, scraped, gap,
                   senderVars, runObs, lifeObs>>

\* lines 96-97 are not guarded: open() truncates, a failing dump ends the process
ScrapeSaveFailed ==
    /\ spc = "saving"
    /\ artifact' = Partial
    /\ spc' = "died"
    /\ UNCHANGED <<sentFile, countries, sidx, scraped, gap, writes,
                   senderVars, runObs, lifeObs>>

\* lines 102-106: the script ends, its memory is gone
ScrapeExit ==
    /\ spc \in {"done", "died"}
    /\ spc' = "idle" /\ countries' = <<>> /\ sidx' = 0 /\ scraped' = <<>>
    /\ gap' = 0 /\ writes' = 0
    /\ UNCHANGED <<artifact, sentFile, senderVars, runObs, lifeObs>>

ScraperNext ==
    \/ ScrapeStart \/ ScrapeStartFailed
    \/ ScrapeCountryFetched \/ ScrapeCountryFetchFailed
    \/ ScrapeLoopEnd \/ ScrapeSave \/ ScrapeSaveFailed \/ ScrapeExit

\* =============================================================== sender
LoadEmbassyData(file) == IF file.kind = "json" THEN file.data ELSE <<>>

LoadSentLogEmpty(file) == EmptyLog

LoadSentLog(file) == IF file.kind = "json" THEN file.data ELSE EmptyLog

NeverContacted(country, log) == FALSE

AlreadyContacted(country, log) == country \in DOMAIN log

HasEmails(info) == "emails" \in DOMAIN info /\ info.emails # <<>>

LastEmail(info) == info.emails[Len(info.emails)]

FirstEmail(info) == info.emails[1]

\* the timestamp feeds no decision of the program and is left abstract
Entry(address) ==
    [email |-> address, sent_date |-> "datetime.now()", status |-> "sent"]

Record(log, country, address) ==
    [c \in DOMAIN log \cup {country} |->
        IF c = country THEN Entry(address) ELSE log[c]]

BatchDueStrict(count, size) == count % size = 0 /\ count > size

BatchDue(count, size) == count % size = 0

Running == {"loop", "send", "record", "open", "dump", "delay", "batch"}

Country == embassy_data[processed].name
NextCountry == embassy_data[processed + 1]

\* main.py 227-248 and process_embassies 171-178
StartRun ==
    /\ pc = "idle"
    /\ artifact.kind # "absent"
    /\ embassy_data' = LoadEmbassyData(artifact)
    /\ sent_log' = LoadSentLog(sentFile)
    /\ \E b \in 1..MaxBatch : batch_size' = b
    /\ processed' = 0 /\ email' = 0
    /\ pc' = "loop"
    /\ outcome' = "none" /\ slept' = 0 /\ submissions' = <<>> /\ failed' = {}
    /\ saveOk' = TRUE /\ fileAtStart' = sentFile /\ ending' = "none"
    /\ resumeFrom' = persistedAtKill /\ persistedAtKill' = None
    /\ UNCHANGED <<artifact, sentFile, scraperVars, delivered, failedBefore>>

\* line 181: the mapping is exhausted; lines 220-222
LoopEnd ==
    /\ pc = "loop" /\ processed = Len(embassy_data)
    /\ pc' = "done" /\ ending' = "completed"
    /\ UNCHANGED <<artifact, sentFile, scraperVars, embassy_data, sent_log,
                   batch_size, processed, email, outcome, slept,
                   submissions, failed, saveOk, fileAtStart, lifeObs>>

\* lines 181-187
SkipAlreadySent ==
    /\ pc = "loop" /\ processed < Len(embassy_data)
    /\ AlreadyContacted(NextCountry.name, sent_log)
    /\ processed' = processed + 1
    /\ outcome' = "already_sent" /\ slept' = 0
    /\ UNCHANGED <<artifact, sentFile, scraperVars, pc, embassy_data, sent_log,
                   batch_size, email, submissions, failed, saveOk,
                   fileAtStart, ending, lifeObs>>

\* lines 181-191
SkipNoEmail ==
    /\ pc = "loop" /\ processed < Len(embassy_data)
    /\ ~AlreadyContacted(NextCountry.name, sent_log)
    /\ ~HasEmails(NextCountry.result)
    /\ processed' = processed + 1
    /\ outcome' = "no_email" /\ slept' = 0
    /\ UNCHANGED <<artifact, sentFile, scraperVars, pc, embassy_data, sent_log,
                   batch_size, email, submissions, failed, saveOk,
                   fileAtStart, ending, lifeObs>>

\* lines 181-199: send_email is called with the first address
Attempt ==
    /\ pc = "loop" /\ processed < Len(embassy_data)
    /\ ~AlreadyContacted(NextCountry.name, sent_log)
    /\ HasEmails(NextCountry.result)
    /\ processed' = processed + 1
    /\ email' = FirstEmail(NextCountry.result)
    /\ submissions' = Append(submissions, <<NextCountry.name, email'>>)
    /\ outcome' = "attempted" /\ slept' = 0
    /\ pc' = "send"
    /\ UNCHANGED <<artifact, sentFile, scraperVars, embassy_data, sent_log,
                   batch_size, failed, saveOk, fileAtStart, ending, lifeObs>>

\* send_email, lines 113-151: the relay accepted the message
SendOk ==
    /\ pc = "send"
    /\ delivered' = delivered \cup {Country}
    /\ outcome' = "sent"
    /\ pc' = "record"
    /\ UNCHANGED <<artifact, sentFile, scraperVars, embassy_data, sent_log,
                   batch_size, processed, email, slept, submissions, failed,
                   saveOk, fileAtStart, ending, failedBefore, persistedAtKill,
                   resumeFrom>>

\* send_email's result is ignored: the failed country is recorded all the same
SendFailedRecorded ==
    /\ pc = "send"
    /\ outcome' = "failed"
    /\ failed' = failed \cup {Country}
    /\ pc' = "record"
    /\ UNCHANGED <<artifact, sentFile, scraperVars, embassy_data, sent_log,
                   batch_size, processed, email, slept, submissions,
                   saveOk, fileAtStart, ending, lifeObs>>

\* send_email, lines 153-155 (returns False), then line 211
SendFailed ==
    /\ pc = "send"
    /\ outcome' = "failed"
    /\ failed' = failed \cup {Country}
    /\ pc' = "batch"
    /\ UNCHANGED <<artifact, sentFile, scraperVars, embassy_data, sent_log,
                   batch_size, processed, email, slept, submissions,
                   saveOk, fileAtStart, ending, lifeObs>>

\* lines 200-204
RecordEntry ==
    /\ pc = "record"
    /\ sent_log' = Record(sent_log, Country, email)
    /\ pc' = "open"
    /\ UNCHANGED <<artifact, sentFile, scraperVars, embassy_data, batch_size,
                   processed, email, runObs, lifeObs>>

\* save_sent_log, line 49: open(..., 'w') truncates the file
SaveOpen ==
    /\ pc = "open"
    /\ sentFile' = Partial
    /\ pc' = "dump"
    /\ UNCHANGED <<artifact, scraperVars, embassy_data, sent_log, batch_size,
                   processed, email, runObs, lifeObs>>

\* save_sent_log, lines 49, 51-52: open raised, the error is logged
SaveOpenFailed ==
    /\ pc = "open"
    /\ saveOk' = FALSE
    /\ pc' = "delay"
    /\ UNCHANGED <<artifact, sentFile, scraperVars, embassy_data, sent_log,
                   batch_size, processed, email, outcome, slept,
                   submissions, failed, fileAtStart, ending, lifeObs>>

DumpNothing(log) == Partial

Dump(log) == Json(log)

\* save_sent_log, line 50
SaveDump ==
    /\ pc = "dump"
    /\ sentFile' = Dump(sent_log)
    /\ saveOk' = TRUE
    /\ pc' = "delay"
    /\ UNCHANGED <<artifact, scraperVars, embassy_data, sent_log,
                   batch_size, processed, email, outcome, slept,
                   submissions, failed, fileAtStart, ending, lifeObs>>

\* save_sent_log, lines 50-52: the dump raised, the error is logged
SaveDumpFailed ==
    /\ pc = "dump"
    /\ saveOk' = FALSE
    /\ pc' = "delay"
    /\ UNCHANGED <<artifact, sentFile, scraperVars, embassy_data, sent_log,
                   batch_size, processed, email, outcome, slept,
                   submissions, failed, fileAtStart, ending, lifeObs>>

\* lines 208-209
SendPause ==
    /\ pc = "delay"
    /\ slept' = slept + SendDelay
    /\ pc' = "batch"
    /\ UNCHANGED <<artifact, sentFile, scraperVars, embassy_data, sent_log,
                   batch_size, processed, email, outcome, submissions,
                   failed, saveOk, fileAtStart, ending, lifeObs>>

\* lines 211-214
BatchPause ==
    /\ pc = "batch"
    /\ BatchDue(processed, batch_size)
    /\ slept' = slept + BatchBreak
    /\ pc' = "loop"
    /\ UNCHANGED <<artifact, sentFile, scraperVars, embassy_data, sent_log,
                   batch_size, processed, email, outcome, submissions,
                   failed, saveOk, fileAtStart, ending, lifeObs>>

\* line 211, condition false
NoBatchPause ==
    /\ pc = "batch"
    /\ ~BatchDue(processed, batch_size)
    /\ pc' = "loop"
    /\ UNCHANGED <<artifact, sentFile, scraperVars, embassy_data, sent_log,
                   batch_size, processed, email, runObs, lifeObs>>

\* lines 216-217, 220-222: KeyboardInterrupt anywhere inside the try
Interrupt ==
    /\ pc \in Running
    /\ pc' = "done" /\ ending' = "interrupted"
    /\ UNCHANGED <<artifact, sentFile, scraperVars, embassy_data, sent_log,
                   batch_size, processed, email, outcome, slept,
                   submissions, failed, saveOk, fileAtStart, lifeObs>>

\* the process is killed (no handler runs)
Kill ==
    /\ pc \in Running
    /\ pc' = "done" /\ ending' = "killed"
    /\ persistedAtKill' = IF pc = "delay" /\ saveOk
                          THEN Some(DOMAIN sent_log) ELSE None
    /\ UNCHANGED <<artifact, sentFile, scraperVars, embassy_data, sent_log,
                   batch_size, processed, email, outcome, slept,
                   submissions, failed, saveOk, fileAtStart, delivered,
                   failedBefore, resumeFrom>>

\* the process is gone: nothing survives but the two files
Exit ==
    /\ pc = "done"
    /\ pc' = "idle" /\ embassy_data' = <<>> /\ sent_log' = EmptyLog
    /\ batch_size' = 1 /\ processed' = 0 /\ email' = 0
    /\ outcome' = "none" /\ slept' = 0 /\ submissions' = <<>> /\ failed' = {}
    /\ saveOk' = TRUE /\ fileAtStart' = Absent /\ ending' = "none"
    /\ failedBefore' = failed /\ resumeFrom' = None
    /\ UNCHANGED <<artifact, sentFile, scraperVars, delivered, persistedAtKill>>

SenderNext ==
    \/ StartRun \/ LoopEnd \/ SkipAlreadySent \/ SkipNoEmail \/ Attempt
    \/ SendOk \/ SendFailed \/ RecordEntry
    \/ SaveOpen \/ SaveOpenFailed \/ SaveDump \/ SaveDumpFailed
    \/ SendPause \/ BatchPause \/ NoBatchPause
    \/ Interrupt \/ Kill \/ Exit

\* a whole scrape run (scrapper.py 102-106) as the sender's files see it
ScrapeRun ==
    /\ pc = "idle"
    /\ \E names \in CountryLists :
       \E outs \in [1..Len(names) -> ScrapeOutcomes] :
          artifact' = Json(ScrapeAll(names, outs, <<>>))
    /\ failedBefore' = {} /\ persistedAtKill' = None
    /\ UNCHANGED <<sentFile, scraperVars, senderVars, runObs, delivered, resumeFrom>>

\* a scrape run that dies while writing the artifact (lines 96-97)
ScrapeRunDied ==
    /\ pc = "idle"
    /\ artifact' = Partial
    /\ failedBefore' = {} /\ persistedAtKill' = None
    /\ UNCHANGED <<sentFile, scraperVars, senderVars, runObs, delivered, resumeFrom>>

Next == SenderNext \/ ScrapeRun \/ ScrapeRunDied

\* the send job, with scrape runs in between
Spec == Init /\ [][Next]_vars

\* the scrape job, step by step
SpecScrape == Init /\ [][ScraperNext]_vars

\* ================================================== what the claims need
PersistedKeys(file) == IF file.kind = "json" THEN DOMAIN file.data ELSE {}
PersistedEntries(file) == IF file.kind = "json" THEN file.data ELSE EmptyLog
NonEmpty(result) == "emails" \in DOMAIN result /\ result.emails # <<>>
Submitted == {submissions[i][1] : i \in DOMAIN submissions}
NewKeys == DOMAIN sent_log \ PersistedKeys(fileAtStart)
InRun == pc # "idle"

\* C1 -- a send run that starts with a Send Log holding an entry for every
\* country of the artifact that has an e-mail makes no submission, takes
\* the "already contacted" branch for each of them, and leaves the
\* persisted Send Log as it was.
C1_Covered ==
    \A i \in 1..Len(embassy_data) :
        NonEmpty(embassy_data[i].result)
            => embassy_data[i].name \in PersistedKeys(fileAtStart)

C1_Idempotent ==
    (InRun /\ C1_Covered) =>
        /\ submissions = <<>>
        /\ sentFile = fileAtStart
        /\ (processed > 0 /\ NonEmpty(embassy_data[processed].result))
               => outcome = "already_sent"

C1_Witness ==
    /\ pc = "done" /\ ending = "completed" /\ C1_Covered
    /\ Len(embassy_data) = 2
    /\ \A i \in 1..2 : NonEmpty(embassy_data[i].result)
    /\ outcome = "already_sent"

\* C2 -- a run that follows a run killed right after the N-th entry was
\* persisted (same artifact, same Send Log) submits nothing to the
\* countries persisted at the kill, and the first country without an
\* entry is the first one it does not skip as already contacted.
C2_FirstOpen ==
    {i \in 1..Len(embassy_data) :
        /\ embassy_data[i].name \notin resumeFrom.keys
        /\ \A j \in 1..(i - 1) : embassy_data[j].name \in resumeFrom.keys}

C2_Resume ==
    (InRun /\ resumeFrom.set) =>
        /\ Submitted \cap resumeFrom.keys = {}
        /\ \A i \in C2_FirstOpen :
              /\ (processed >= i /\ NonEmpty(embassy_data[i].result))
                    => /\ submissions # <<>>
                       /\ submissions[1][1] = embassy_data[i].name
              /\ processed < i => submissions = <<>>

C2_Witness ==
    /\ pc = "done" /\ resumeFrom.set /\ resumeFrom.keys # {}
    /\ Len(embassy_data) = 2
    /\ embassy_data[1].name \in resumeFrom.keys
    /\ submissions = <<<<embassy_data[2].name, email>>>>
    /\ outcome = "sent"

\* C3 (as claimed) -- however a send run ends, every entry that was in the
\* persisted Send Log when the run started is still there, unchanged.
C3_NoLossOfProgress ==
    (pc = "done" /\ ending \in {"interrupted", "killed"}) =>
        \A c \in PersistedKeys(fileAtStart) :
            /\ c \in PersistedKeys(sentFile)
            /\ sentFile.data[c] = fileAtStart.data[c]

\* C4 (as claimed) -- whenever the count of processed countries is a
\* multiple of the batch size, the long pause has been taken before the
\* next country is processed, whatever happened to the last country.
C4_PauseOnEveryOutcome ==
    (pc = "loop" /\ processed > 0 /\ processed % batch_size = 0)
        => slept >= BatchBreak

\* C4 (amended) -- the long pause is taken before the next country exactly
\* when the count of processed countries is a multiple of the batch size
\* and the last country was attempted (sent or failed); after a skipped
\* country there is no pause.
C4_PauseAfterAttempt ==
    (pc = "loop" /\ processed > 0) =>
        (slept >= BatchBreak
            <=> (processed % batch_size = 0 /\ outcome \in {"sent", "failed"}))

C4_Witness ==
    /\ pc = "loop" /\ batch_size = 2 /\ processed = 2
    /\ outcome = "failed" /\ slept = BatchBreak

\* C5 (as claimed) -- between two detail-page requests of a scrape run the
\* delay of 2 has always elapsed, also after a failed fetch.
C5_DelayBetweenRequests ==
    (spc = "scraping" /\ 0 < sidx /\ sidx < Len(countries))
        => gap = ScrapeDelay

\* C6 -- a failed send creates no entry for its country, never reaches the
\* write of the Send Log, leaves the loop running over the remaining
\* countries, and the country is attempted again by the next run on the
\* same artifact.
C6_FailedRetryable ==
    /\ \A c \in failed :
          c \notin DOMAIN sent_log /\ c \notin PersistedKeys(sentFile)
    /\ outcome = "failed" => pc \in {"batch", "loop", "done"}
    /\ (pc = "done" /\ ending = "completed") => processed = Len(embassy_data)
    /\ InRun =>
          \A i \in 1..processed :
              embassy_data[i].name \in failedBefore
                  => embassy_data[i].name \in Submitted

C6_Witness ==
    /\ pc = "done" /\ ending = "completed"
    /\ Len(embassy_data) = 2
    /\ embassy_data[1].name \in failedBefore \cap failed
    /\ embassy_data[2].name \in DOMAIN sent_log

\* C7 (as claimed) -- every key of the persisted Send Log is a key of the
\* scrape mapping.
C7_KeysInScrapeMapping ==
    PersistedKeys(sentFile) \subseteq DictKeys(LoadEmbassyData(artifact))

\* C7 (amended) -- every key of the Send Log, persisted or in memory, is a
\* country for which a transport submission succeeded; an entry created
\* by a run is for a country of the mapping that run loaded, with an
\* e-mail, whose send did not fail.
C7_KeysWereDelivered ==
    /\ PersistedKeys(sentFile) \subseteq delivered
    /\ InRun =>
          /\ DOMAIN sent_log \subseteq delivered
          /\ \A c \in NewKeys :
                /\ c \notin failed
                /\ \E i \in 1..processed :
                      /\ embassy_data[i].name = c
                      /\ NonEmpty(embassy_data[i].result)

C7_Witness ==
    /\ pc = "idle"
    /\ PersistedKeys(sentFile) # {}
    /\ artifact.kind = "json"
    /\ ~(PersistedKeys(sentFile) \subseteq DictKeys(artifact.data))

\* C8 -- a scrape run processes every country of the list whatever the
\* fetches and extractions give, ends with a result (e-mails or error)
\* under every listed name, and writes the artifact once, at the end.
C8_ScrapeIsolation ==
    /\ spc \in {"saving", "done"} =>
          /\ sidx = Len(countries)
          /\ DictKeys(scraped) = {countries[i] : i \in 1..Len(countries)}
          /\ \A i \in 1..Len(scraped) :
                \/ NonEmpty(scraped[i].result)
                \/ "error" \in DOMAIN scraped[i].result
    /\ spc = "scraping" => writes = 0
    /\ spc = "saving" => writes = 0
    /\ spc = "done" => writes = 1 /\ artifact = Json(scraped)

C8_Witness ==
    /\ spc = "done"
    /\ Len(countries) = 2 /\ Len(scraped) = 2
    /\ scraped[1].result = [error |-> FetchError]
    /\ NonEmpty(scraped[2].result)

C10_OneSubmissionFirstAddress ==
    InRun =>
        /\ \A i, j \in DOMAIN submissions :
              submissions[i][1] = submissions[j][1] => i = j
        /\ \A i \in DOMAIN submissions :
              \E k \in 1..processed :
                  /\ embassy_data[k].name = submissions[i][1]
                  /\ NonEmpty(embassy_data[k].result)
                  /\ submissions[i][2] = embassy_data[k].result.emails[1]
        /\ \A c \in NewKeys :
              \E i \in DOMAIN submissions :
                  submissions[i] = <<c, sent_log[c].email>>
        /\ \A k \in 1..Len(embassy_data) :
              ~NonEmpty(embassy_data[k].result)
                  => /\ embassy_data[k].name \notin Submitted
                     /\ embassy_data[k].name \notin NewKeys

C10_Witness ==
    /\ pc = "done" /\ ending = "completed"
    /\ Len(embassy_data) = 2
    /\ NonEmpty(embassy_data[1].result)
    /\ Len(embassy_data[1].result.emails) = 2
    /\ ~NonEmpty(embassy_data[2].result)
    /\ NewKeys = {embassy_data[1].name}
    /\ sent_log[embassy_data[1].name].email = embassy_data[1].result.emails[1]

====
